---------------------------- MODULE Spec2Model ----------------------------
(***************************************************************************)
(* A model of just-trie-me: token tries built by add/build and searched    *)
(* by find_any / find_all.  Strings are sequences of one-character         *)
(* strings, so that format!("^{}$", token), the tokenizers and the regex   *)
(* engine act on the characters as the code does.                          *)
(***************************************************************************)
EXTENDS Naturals, Sequences, FiniteSets

(***************************************************************************)
(* Characters and strings                                                  *)
(***************************************************************************)

\* src/src/tokenization/mod.rs:8 (of ' ', '\t', '\n', '\r' the model's texts use the first two)
WHITESPACE_CHARS == {" ", "\t", "\n", "\r"}

\* char::to_lowercase on the model's alphabet
Lower(c) == CASE c = "A" -> "a" [] c = "B" -> "b" [] c = "C" -> "c" [] OTHER -> c

\* str::to_lowercase
ToLowercase(s) == [i \in 1..Len(s) |-> Lower(s[i])]

\* Option<V>: None is <<>>, Some(v) is <<v>>
None == <<>>
Some(v) == <<v>>
IsSome(o) == o # <<>>

(***************************************************************************)
(* The pattern engine (crate regex): literals, '.', '^', '$', groups,      *)
(* alternation and '*', built with case_insensitive(true).                 *)
(***************************************************************************)

RECURSIVE Balanced(_, _, _)
\* every ')' closes an open group and every group is closed
Balanced(p, i, d) ==
    IF i > Len(p) THEN d = 0
    ELSE IF p[i] = "(" THEN Balanced(p, i + 1, d + 1)
    ELSE IF p[i] = ")" THEN d > 0 /\ Balanced(p, i + 1, d - 1)
    ELSE Balanced(p, i + 1, d)

\* RegexBuilder::build / RegexSetBuilder::build succeed on this pattern text
CompileOk(p) ==
    /\ Balanced(p, 1, 0)
    /\ \A i \in 1..Len(p) : p[i] = "*" => (i > 1 /\ p[i - 1] \notin {"(", "|", "*"})

RECURSIVE CloseOf(_, _, _)
\* the index of the ')' that closes the group whose body starts at i
CloseOf(p, i, d) ==
    IF i > Len(p) THEN 0
    ELSE IF p[i] = "(" THEN CloseOf(p, i + 1, d + 1)
    ELSE IF p[i] = ")" THEN (IF d = 0 THEN i ELSE CloseOf(p, i + 1, d - 1))
    ELSE CloseOf(p, i + 1, d)

RECURSIVE BarAt(_, _, _, _)
\* the first '|' of p[i..hi] outside every group, 0 if there is none
BarAt(p, i, hi, d) ==
    IF i > hi THEN 0
    ELSE IF p[i] = "(" THEN BarAt(p, i + 1, hi, d + 1)
    ELSE IF p[i] = ")" THEN BarAt(p, i + 1, hi, d - 1)
    ELSE IF p[i] = "|" /\ d = 0 THEN i
    ELSE BarAt(p, i + 1, hi, d)

RECURSIVE AltEnds(_, _, _, _, _)
RECURSIVE ConcatEnds(_, _, _, _, _)
RECURSIVE StarEnds(_, _, _, _, _)

\* the positions of s (0..Len(s)) where a match of the one atom p[lo..hi]
\* that starts at a position of S can end
AtomEnds(p, lo, hi, s, S) ==
    IF p[lo] = "(" THEN AltEnds(p, lo + 1, hi - 1, s, S)
    ELSE IF p[lo] = "^" THEN S \cap {0}
    ELSE IF p[lo] = "$" THEN S \cap {Len(s)}
    ELSE IF p[lo] = "." THEN {i + 1 : i \in {j \in S : j < Len(s)}}
    ELSE {i + 1 : i \in {j \in S : j < Len(s) /\ Lower(s[j + 1]) = Lower(p[lo])}}

StarEnds(p, lo, hi, s, S) ==
    LET N == S \cup AtomEnds(p, lo, hi, s, S)
    IN  IF N = S THEN S ELSE StarEnds(p, lo, hi, s, N)

ConcatEnds(p, lo, hi, s, S) ==
    IF lo > hi \/ S = {} THEN S
    ELSE LET e    == IF p[lo] = "(" THEN CloseOf(p, lo + 1, 0) ELSE lo
             star == e < hi /\ p[e + 1] = "*"
         IN  IF star THEN ConcatEnds(p, e + 2, hi, s, StarEnds(p, lo, e, s, S))
             ELSE ConcatEnds(p, e + 1, hi, s, AtomEnds(p, lo, e, s, S))

AltEnds(p, lo, hi, s, S) ==
    LET k == BarAt(p, lo, hi, 0)
    IN  IF k = 0 THEN ConcatEnds(p, lo, hi, s, S)
        ELSE ConcatEnds(p, lo, k - 1, s, S) \cup AltEnds(p, k + 1, hi, s, S)

\* Regex::is_match(s): the pattern p matches somewhere in s (a search, which only
\* the anchors written in p tie to the ends of s)
IsMatch(p, s) == AltEnds(p, 1, Len(p), s, 0..Len(s)) # {}

(***************************************************************************)
(* Tokenizers                                                              *)
(***************************************************************************)

\* char::is_whitespace, the Unicode White_Space property str::trim goes by: on
\* the model's alphabet the four separators and the form feed
IsWhitespace(c) == c \in WHITESPACE_CHARS \cup {"\f"}

RECURSIVE TrimStart(_)
TrimStart(s) == IF s # <<>> /\ IsWhitespace(Head(s)) THEN TrimStart(Tail(s)) ELSE s

RECURSIVE TrimEnd(_)
TrimEnd(s) ==
    IF s # <<>> /\ IsWhitespace(s[Len(s)]) THEN TrimEnd(SubSeq(s, 1, Len(s) - 1)) ELSE s

\* str::trim
Trim(s) == TrimEnd(TrimStart(s))

RECURSIVE SplitFrom(_, _, _, _)
\* str::split(WHITESPACE_CHARS): the fields between separators, empty ones included
SplitFrom(s, i, cur, acc) ==
    IF i > Len(s) THEN Append(acc, cur)
    ELSE IF s[i] \in WHITESPACE_CHARS THEN SplitFrom(s, i + 1, <<>>, Append(acc, cur))
    ELSE SplitFrom(s, i + 1, Append(cur, s[i]), acc)

RECURSIVE NonEmptyLower(_)
\* .filter(|s| !s.is_empty()).map(|s| s.to_lowercase())
NonEmptyLower(fields) ==
    IF fields = <<>> THEN <<>>
    ELSE IF Head(fields) = <<>> THEN NonEmptyLower(Tail(fields))
    ELSE <<ToLowercase(Head(fields))>> \o NonEmptyLower(Tail(fields))

WhitespaceTokenize(s) == NonEmptyLower(SplitFrom(Trim(s), 1, <<>>, <<>>))

NoOpTokenize(s) == <<s>>

Tokenize(tokenizer, s) ==
    IF tokenizer = "whitespace" THEN WhitespaceTokenize(s) ELSE NoOpTokenize(s)

(***************************************************************************)
(* Nodes.  A node is [value, children]; the children are a map from key to *)
(* node (HashMap<String, Box<Self>>) in StringTrieNode and in the builders *)
(* of the compiled-set nodes, a sequence of [pat, node] (Vec<(Regex,       *)
(* Box<Self>)>) in RegexTrieNode, and in a compiled-set node a sequence of *)
(* nodes beside the sequence of the patterns given to the set matcher.     *)
(***************************************************************************)

Kinds == {"string", "regex", "regexset"}

\* Self::default(): no value, no children
DefaultNode == [value |-> None, children |-> <<>>]

\* HashMap::insert
MapPut(m, k, v) == [x \in DOMAIN m \cup {k} |-> IF x = k THEN v ELSE m[x]]

\* format!("^{}$", part.as_ref())
Anchor(part) == <<"^">> \o part \o <<"$">>

RECURSIVE StringAddFresh(_, _, _)
\* not the code: an add that makes a new child whether or not one is there
StringAddFresh(node, items, value) ==
    IF items = <<>> THEN [ok |-> TRUE, node |-> [node EXCEPT !.value = Some(value)]]
    ELSE LET r == StringAddFresh(DefaultNode, Tail(items), value)
         IN  [ok |-> TRUE,
              node |-> [node EXCEPT !.children = MapPut(@, Head(items), r.node)]]

RECURSIVE StringAdd(_, _, _)
\* StringTrieNode::add; the result of the recursive call is dropped and Ok returned
StringAdd(node, items, value) ==
    IF items = <<>> THEN [ok |-> TRUE, node |-> [node EXCEPT !.value = Some(value)]]
    ELSE LET pattern == Head(items)
             child   == IF pattern \in DOMAIN node.children
                        THEN node.children[pattern] ELSE DefaultNode
             r       == StringAdd(child, Tail(items), value)
         IN  [ok |-> TRUE,
              node |-> [node EXCEPT !.children = MapPut(@, pattern, r.node)]]

\* StringTrieNode::len
StringLen(node) == Cardinality(DOMAIN node.children)

RECURSIVE SumOver(_, _)
\* Iterator::sum of f over the keys of S
SumOver(f, S) ==
    IF S = {} THEN 0
    ELSE LET k == CHOOSE x \in S : TRUE IN f[k] + SumOver(f, S \ {k})

RECURSIVE StringLenRecursive(_)
\* StringTrieNode::len_recursive
StringLenRecursive(node) ==
    StringLen(node)
        + SumOver([k \in DOMAIN node.children |-> StringLenRecursive(node.children[k])],
                  DOMAIN node.children)

RECURSIVE FirstMatchFrom(_, _, _)
\* Iterator::find over the (Regex, node) pairs: the index of the first pair whose
\* pattern is_match(token), 0 if none
FirstMatchFrom(children, token, i) ==
    IF i > Len(children) THEN 0
    ELSE IF IsMatch(children[i].pat, token) THEN i
    ELSE FirstMatchFrom(children, token, i + 1)

\* RegexTrieNode::get_child_mut(token)
RegexGetChildMut(node, token) == FirstMatchFrom(node.children, token, 1)

RECURSIVE RegexAdd(_, _, _)
\* RegexTrieNode::add: the child is looked up by matching the pattern text
\* against the children's regexes; a pattern that does not compile is an Err
\* that leaves what the call pushed above it in place
RegexAdd(node, items, value) ==
    IF items = <<>> THEN [ok |-> TRUE, node |-> [node EXCEPT !.value = Some(value)]]
    ELSE LET pattern == Anchor(Head(items))
             idx     == RegexGetChildMut(node, pattern)
         IN  IF idx # 0
             THEN LET r == RegexAdd(node.children[idx].node, Tail(items), value)
                  IN  [ok |-> r.ok,
                       node |-> [node EXCEPT !.children[idx].node = r.node]]
             ELSE IF ~CompileOk(pattern) THEN [ok |-> FALSE, node |-> node]
             ELSE LET r == RegexAdd(DefaultNode, Tail(items), value)
                  IN  [ok |-> r.ok,
                       node |-> [node EXCEPT !.children =
                                    Append(@, [pat |-> pattern, node |-> r.node])]]

RECURSIVE RegexSetAdd(_, _, _)
\* RegexSetTrieNodeBuilder::add and RegexFilteredTrieNodeBuilder::add (the same code)
RegexSetAdd(node, items, value) ==
    IF items = <<>> THEN [ok |-> TRUE, node |-> [node EXCEPT !.value = Some(value)]]
    ELSE LET pattern == Anchor(Head(items))
             child   == IF pattern \in DOMAIN node.children
                        THEN node.children[pattern] ELSE DefaultNode
             r       == RegexSetAdd(child, Tail(items), value)
         IN  [ok |-> r.ok,
              node |-> [node EXCEPT !.children = MapPut(@, pattern, r.node)]]

\* TrieNodeBuilder::add of the builder's node type
NodeAdd(kind, node, items, value) ==
    CASE kind = "string"   -> StringAdd(node, items, value)
      [] kind = "regex"    -> RegexAdd(node, items, value)
      [] kind = "regexset" -> RegexSetAdd(node, items, value)

(***************************************************************************)
(* build                                                                   *)
(***************************************************************************)

\* the orders in which HashMap::into_iter can yield the keys of S
Orders(S) == {o \in [1..Cardinality(S) -> S] : \A i, j \in DOMAIN o : i # j => o[i] # o[j]}

\* not the code: a build that looks at the patterns of the root alone
SetBuildFailsAtRoot(b) == \E k \in DOMAIN b.children : ~CompileOk(k)

RECURSIVE SetBuildFails(_)
\* some pattern of the tree does not compile: push_opt / RegexSetBuilder::build or a
\* child's build returns Err, which `?` hands up
SetBuildFails(b) ==
    \E k \in DOMAIN b.children : ~CompileOk(k) \/ SetBuildFails(b.children[k])

RECURSIVE SetBuilds(_)
RECURSIVE SetBuildsIn(_, _, _)
RECURSIVE SetBuildsInReversed(_, _, _)
\* not the code: a build that pushes the children in the opposite order of the
\* patterns
SetBuildsInReversed(b, o, i) ==
    IF i > Len(o) THEN {<<>>}
    ELSE {<<c>> \o rest : c \in SetBuilds(b.children[o[Len(o) + 1 - i]]),
                          rest \in SetBuildsInReversed(b, o, i + 1)}

\* the sequences of compiled children for the keys o[i..]
SetBuildsIn(b, o, i) ==
    IF i > Len(o) THEN {<<>>}
    ELSE {<<c>> \o rest : c \in SetBuilds(b.children[o[i]]), rest \in SetBuildsIn(b, o, i + 1)}

\* RegexSetTrieNodeBuilder::build / RegexFilteredTrieNodeBuilder::build on a tree
\* whose patterns compile: the nodes it can return, one per iteration order of
\* the maps
SetBuilds(b) ==
    {[value |-> b.value, patterns |-> o, children |-> cs] :
        <<o, cs>> \in UNION {{<<o, cs>> : cs \in SetBuildsIn(b, o, 1)} : o \in Orders(DOMAIN b.children)}}

\* TrieNodeBuilder::build: the results it can give, as [ok, node]
NodeBuilds(kind, b) ==
    IF kind = "regexset"
    THEN IF SetBuildFails(b) THEN {[ok |-> FALSE, node |-> DefaultNode]}
         ELSE {[ok |-> TRUE, node |-> n] : n \in SetBuilds(b)}
    ELSE {[ok |-> TRUE, node |-> b]}

(***************************************************************************)
(* Lookup in a built node                                                  *)
(***************************************************************************)

\* not the code: a lookup that also takes a key the token merely extends
StringGetChildrenByPrefix(node, token) ==
    LET ks == {k \in DOMAIN node.children :
                  Len(k) <= Len(token) /\ SubSeq(token, 1, Len(k)) = k}
    IN  IF ks = {} THEN <<>> ELSE <<node.children[CHOOSE k \in ks : TRUE]>>

\* StringTrieNode::get_children: HashMap::get(token), at most one child
StringGetChildren(node, token) ==
    IF token \in DOMAIN node.children THEN <<node.children[token]>> ELSE <<>>

RECURSIVE RegexFilterFrom(_, _, _)
RegexFilterFrom(children, token, i) ==
    IF i > Len(children) THEN <<>>
    ELSE (IF IsMatch(children[i].pat, token) THEN <<children[i].node>> ELSE <<>>)
         \o RegexFilterFrom(children, token, i + 1)

\* RegexTrieNode::get_children: every child whose pattern is_match(token), in Vec order
RegexGetChildren(node, token) == RegexFilterFrom(node.children, token, 1)

\* RegexSet::matches(token) / Regexes::matching(token): the indices (from 1 here) of
\* the patterns that match
SetMatches(node, token) == {i \in DOMAIN node.patterns : IsMatch(node.patterns[i], token)}

RECURSIVE SortedFrom(_, _, _)
\* matches.sort() and the map over it: the children at the indices of S, ascending
SortedFrom(node, S, i) ==
    IF i > Len(node.children) THEN <<>>
    ELSE (IF i \in S THEN <<node.children[i]>> ELSE <<>>) \o SortedFrom(node, S, i + 1)

\* RegexSetTrieNode::get_children and RegexFilteredTrieNode::get_children
RegexSetGetChildren(node, token) ==
    LET matches == SetMatches(node, token)
    IN  IF matches = {} THEN <<>> ELSE SortedFrom(node, matches, 1)

\* not the code: a lookup that gives up after the first matching child
GetChildrenFirstOnly(kind, node, token) ==
    LET cs == CASE kind = "string"   -> StringGetChildren(node, token)
                [] kind = "regex"    -> RegexGetChildren(node, token)
                [] kind = "regexset" -> RegexSetGetChildren(node, token)
    IN  IF cs = <<>> THEN <<>> ELSE <<Head(cs)>>

\* TrieNode::get_children of the node type
GetChildren(kind, node, token) ==
    CASE kind = "string"   -> StringGetChildren(node, token)
      [] kind = "regex"    -> RegexGetChildren(node, token)
      [] kind = "regexset" -> RegexSetGetChildren(node, token)

\* the first element of a Vec, as an Option
First(seq) == IF seq = <<>> THEN None ELSE Some(Head(seq))

\* TrieNode::get_child: the trait's default (the first of get_children) for
\* StringTrieNode and RegexFilteredTrieNode, Iterator::find for RegexTrieNode,
\* the first index of matches().iter() for RegexSetTrieNode
GetChild(kind, node, token) ==
    CASE kind = "string"   -> First(StringGetChildren(node, token))
      [] kind = "regex"    ->
            LET idx == FirstMatchFrom(node.children, token, 1)
            IN  IF idx = 0 THEN None ELSE Some(node.children[idx].node)
      [] kind = "regexset" ->
            LET matches == SetMatches(node, token)
            IN  IF matches = {} THEN None
                ELSE Some(node.children[CHOOSE i \in matches : \A j \in matches : i <= j])

(***************************************************************************)
(* The two descents                                                        *)
(***************************************************************************)

RECURSIVE GetAnyDeepest(_, _, _, _)
\* not the code: a descent that prefers the deepest value to the first
GetAnyDeepest(kind, child, tokens, i) ==
    IF i > Len(tokens) THEN child.value
    ELSE LET next == GetChild(kind, child, tokens[i])
             deeper == IF IsSome(next) THEN GetAnyDeepest(kind, next[1], tokens, i + 1)
                       ELSE None
         IN  IF IsSome(deeper) THEN deeper ELSE child.value

RECURSIVE GetAnyFrom(_, _, _, _)
\* the loop of get_any, at `child` with the tokens from index i still to read
GetAnyFrom(kind, child, tokens, i) ==
    IF i > Len(tokens) THEN child.value
    ELSE IF IsSome(child.value) THEN child.value
    ELSE LET next == GetChild(kind, child, tokens[i])
         IN  IF IsSome(next) THEN GetAnyFrom(kind, next[1], tokens, i + 1) ELSE None

RECURSIVE GetAnyWhole(_, _, _)
\* not the code: a descent that reads every token before it looks at a value
GetAnyWhole(kind, node, tokens) ==
    IF tokens = <<>> THEN node.value
    ELSE LET next == GetChild(kind, node, Head(tokens))
         IN  IF IsSome(next) THEN GetAnyWhole(kind, next[1], Tail(tokens)) ELSE None

\* TrieNode::get_any(tokens)
GetAny(kind, node, tokens) == GetAnyFrom(kind, node, tokens, 1)

RECURSIVE GetAllShort(_, _, _)
RECURSIVE GetAllShortOver(_, _, _, _)
GetAllShortOver(kind, cs, j, rest) ==
    IF j > Len(cs) THEN <<>>
    ELSE (IF IsSome(cs[j].value) THEN <<cs[j].value[1]>>
          ELSE GetAllShort(kind, cs[j], rest))
         \o GetAllShortOver(kind, cs, j + 1, rest)

\* not the code: an exhaustive descent that stops below a node with a value
GetAllShort(kind, node, tokens) ==
    IF tokens = <<>> THEN <<>>
    ELSE GetAllShortOver(kind, GetChildren(kind, node, Head(tokens)), 1, Tail(tokens))

RECURSIVE GetAll(_, _, _)
RECURSIVE GetAllOver(_, _, _, _)
\* not the code: a loop that puts what lies below a child before the child's value
GetAllOverDeepFirst(kind, cs, j, rest) ==
    IF j > Len(cs) THEN <<>>
    ELSE GetAll(kind, cs[j], rest)
         \o (IF IsSome(cs[j].value) THEN <<cs[j].value[1]>> ELSE <<>>)
         \o GetAllOver(kind, cs, j + 1, rest)

\* the body of get_all's loop for the children cs[j..]
GetAllOver(kind, cs, j, rest) ==
    IF j > Len(cs) THEN <<>>
    ELSE (IF IsSome(cs[j].value) THEN <<cs[j].value[1]>> ELSE <<>>)
         \o GetAll(kind, cs[j], rest)
         \o GetAllOver(kind, cs, j + 1, rest)

\* TrieNode::get_all(tokens)
GetAll(kind, node, tokens) ==
    IF tokens = <<>> THEN <<>>
    ELSE GetAllOver(kind, GetChildren(kind, node, Head(tokens)), 1, Tail(tokens))

(***************************************************************************)
(* The index: Trie / ImmutableTrie                                         *)
(***************************************************************************)

RECURSIVE FindAnyLoop(_, _, _, _)
\* the loop of find_any from offset i (0-based): the value returned and the
\* offsets whose descent was run, in the order they were run
FindAnyLoop(kind, root, tokens, i) ==
    IF i >= Len(tokens) THEN [value |-> None, tried |-> <<>>]
    ELSE LET r == GetAny(kind, root, SubSeq(tokens, i + 1, Len(tokens)))
         IN  IF IsSome(r) THEN [value |-> r, tried |-> <<i>>]
             ELSE LET more == FindAnyLoop(kind, root, tokens, i + 1)
                  IN  [value |-> more.value, tried |-> <<i>> \o more.tried]

RECURSIVE FindAnyLastLoop(_, _, _, _)
FindAnyLastLoop(kind, root, tokens, i) ==
    IF i >= Len(tokens) THEN [value |-> None, tried |-> <<>>]
    ELSE LET r == GetAny(kind, root, SubSeq(tokens, i + 1, Len(tokens)))
             more == FindAnyLastLoop(kind, root, tokens, i + 1)
         IN  [value |-> IF IsSome(more.value) THEN more.value ELSE r,
              tried |-> <<i>> \o more.tried]

\* not the code: a search that runs every offset and keeps the last success
FindAnyLast(kind, root, tokens) == FindAnyLastLoop(kind, root, tokens, 0)

\* Trie::find_any on the tokens of the text
FindAny(kind, root, tokens) == FindAnyLoop(kind, root, tokens, 0)

RECURSIVE FindAllLoop(_, _, _, _, _)
\* the loop of find_all from offset i (0-based) with `found` so far
FindAllLoop(kind, root, tokens, i, found) ==
    IF i >= Len(tokens) THEN found
    ELSE FindAllLoop(kind, root, tokens, i + 1,
                     found \o GetAll(kind, root, SubSeq(tokens, i + 1, Len(tokens))))

\* not the code: a search that leaves out start offset 0
FindAllFromOne(kind, root, tokens) == FindAllLoop(kind, root, tokens, 1, <<>>)

\* Trie::find_all on the tokens of the text
FindAll(kind, root, tokens) == FindAllLoop(kind, root, tokens, 0, <<>>)

\* the elements of a Vec collected into a HashSet
ToSet(seq) == {seq[i] : i \in DOMAIN seq}

\* Trie::find_unique
FindUnique(kind, root, tokens) == ToSet(FindAll(kind, root, tokens))

\* Ord for bool: false < true
ValueLess(a, b) == a = FALSE /\ b = TRUE

\* BTreeSet iteration: the elements of S in ascending order, each once
Ascending(S) ==
    CHOOSE seq \in [1..Cardinality(S) -> S] :
        \A i, j \in 1..Cardinality(S) : i < j => ValueLess(seq[i], seq[j])

\* not the code: the values in the order find_all found them, duplicates kept
FindAllUnsorted(kind, root, tokens) == FindAll(kind, root, tokens)

\* Trie::find_unique_sorted: BTreeSet::from_iter(find_all(..)), read in order
FindUniqueSorted(kind, root, tokens) == Ascending(ToSet(FindAll(kind, root, tokens)))

\* not the code: true when the descent from any offset ends at the value true
HasMatchAtAnyOffset(kind, root, tokens) ==
    \E i \in 0..(Len(tokens) - 1) :
        GetAny(kind, root, SubSeq(tokens, i + 1, Len(tokens))) = Some(TRUE)

\* Trie::has_match: *find_any(value).unwrap_or(&false)
HasMatch(kind, root, tokens) ==
    LET r == FindAny(kind, root, tokens).value
    IN  IF IsSome(r) THEN r[1] ELSE FALSE

(***************************************************************************)
(* GenericTrieNode<RegexNodeKey, V>: a node that carries its own key       *)
(***************************************************************************)

\* GenericTrieNode::new(key): RegexNodeKey::new compiles "^key$"
GenericNew(key) ==
    [ok |-> CompileOk(Anchor(key)),
     node |-> [key |-> Anchor(key), value |-> None, children |-> <<>>]]

RECURSIVE GenericAdd(_, _, _)
\* GenericTrieNode::add: the children are kept under the token as written, and
\* a child's key is compiled when the child is created
GenericAdd(node, items, value) ==
    IF items = <<>> THEN [ok |-> TRUE, node |-> [node EXCEPT !.value = Some(value)]]
    ELSE LET pattern == Head(items)
             made    == GenericNew(pattern)
         IN  IF pattern \notin DOMAIN node.children /\ ~made.ok
             THEN [ok |-> FALSE, node |-> node]
             ELSE LET child == IF pattern \in DOMAIN node.children
                               THEN node.children[pattern] ELSE made.node
                      r     == GenericAdd(child, Tail(items), value)
                  IN  [ok |-> r.ok,
                       node |-> [node EXCEPT !.children = MapPut(@, pattern, r.node)]]

\* GenericTrieNode::token_is_match
TokenIsMatch(node, token) == IsMatch(node.key, token)

RECURSIVE GenericGetAny(_, _)
RECURSIVE GenericGetAnyOver(_, _, _, _)
\* the loop of get_any over children.values() in the order o, from its i-th key
GenericGetAnyOver(node, o, i, remaining_tokens) ==
    IF i > Len(o) THEN {[panic |-> FALSE, value |-> None]}
    ELSE UNION {IF r.panic \/ IsSome(r.value) THEN {r}
                ELSE GenericGetAnyOver(node, o, i + 1, remaining_tokens) :
                    r \in GenericGetAny(node.children[o[i]], remaining_tokens)}

\* GenericTrieNode::get_any(tokens), the inherent method: what a call can give,
\* one outcome per iteration order of the HashMaps; tokens[0] of an empty
\* slice is an index out of bounds, a panic
GenericGetAny(node, tokens) ==
    IF tokens = <<>> THEN {[panic |-> TRUE, value |-> None]}
    ELSE IF ~TokenIsMatch(node, tokens[1]) THEN {[panic |-> FALSE, value |-> None]}
    ELSE IF Len(tokens) = 1 \/ IsSome(node.value)
         THEN {[panic |-> FALSE, value |-> node.value]}
    ELSE UNION {GenericGetAnyOver(node, o, 1, Tail(tokens)) :
                    o \in Orders(DOMAIN node.children)}

RECURSIVE GenericGetAll(_, _)
RECURSIVE GenericGetAllOver(_, _, _, _)
\* the loop of get_all over children.values() in the order o, from its i-th key
GenericGetAllOver(node, o, i, remaining_tokens) ==
    IF i > Len(o) THEN {<<>>}
    ELSE {x \o y : x \in GenericGetAll(node.children[o[i]], remaining_tokens),
                   y \in GenericGetAllOver(node, o, i + 1, remaining_tokens)}

\* GenericTrieNode::get_all(tokens), the inherent method: the Vecs a call can
\* give, one per iteration order of the HashMaps
GenericGetAll(node, tokens) ==
    IF tokens = <<>> THEN {<<>>}
    ELSE IF ~TokenIsMatch(node, tokens[1]) THEN {<<>>}
    ELSE {(IF IsSome(node.value) THEN <<node.value[1]>> ELSE <<>>) \o rest :
              rest \in UNION {GenericGetAllOver(node, o, 1, Tail(tokens)) :
                                 o \in Orders(DOMAIN node.children)}}

RECURSIVE GenericFilterFrom(_, _, _, _)
\* .filter(|c| c.token_is_match(token)) over children.values() in the order o
GenericFilterFrom(node, o, i, token) ==
    IF i > Len(o) THEN <<>>
    ELSE (IF TokenIsMatch(node.children[o[i]], token) THEN <<node.children[o[i]]>> ELSE <<>>)
         \o GenericFilterFrom(node, o, i + 1, token)

\* GenericTrieNode::get_children(token), of the trait: the Vecs a call can give,
\* one per iteration order of the HashMap
GenericGetChildren(node, token) ==
    {GenericFilterFrom(node, o, 1, token) : o \in Orders(DOMAIN node.children)}

(***************************************************************************)
(* The state machine: one builder, filled by add / add_tokens, consumed by *)
(* build, and the index it gives, queried.                                 *)
(***************************************************************************)

VARIABLES
    kind,       \* the node type of the builder and of the index
    builder,    \* TrieBuilder.builder: the root of the construction tree
    nadds,      \* the number of add calls made
    last,       \* the last add call: its tokens, value and result
    inserted,   \* history: token sequence -> the value of the last add of it that returned Ok
    replaced,   \* history: the token sequences a later add gave another value
    phase,      \* "building", then "built" or "failed" by build
    tokenizer,  \* Trie.tokenizer, given to build
    trie,       \* Trie.root
    out,        \* the last query: the operation, its text and what it returned
    first       \* history: the first find_all of an index, for the behaviours that note it

vars == <<kind, builder, nadds, last, inserted, replaced, phase, tokenizer, trie, out, first>>

\* the number of add calls a behaviour makes
MaxAdds == 2

\* V = bool, the value type has_match needs
Values == BOOLEAN

ta == <<"a">>
tb == <<"b">>
tc == <<"c">>

\* the token sequences given to add_tokens: the empty one (the value goes to
\* the root), phrases sharing prefixes and suffixes, and a pattern
AddSeqs == {<<>>, <<ta>>, <<ta, tb>>, <<tb, tc>>, <<ta, tb, tc>>, <<<<".", "*">>, tb>>}

\* the keys given to add, which the builder's WhitespaceTokenizer splits: "C "
AddKeys == {<<"C", " ">>}

\* the texts searched: "", "a", "ab", "A b", "a b\tc", "a c b"
QueryTexts == {<<>>, <<"a">>, <<"a", "b">>, <<"A", " ", "b">>,
               <<"a", " ", "b", "\t", "c">>, <<"a", " ", "c", " ", "b">>}

Tokenizers == {"whitespace", "noop"}

NoLast == [called |-> FALSE, tokens |-> <<>>, value |-> FALSE, ok |-> FALSE]

NoFirst == [asked |-> FALSE, text |-> <<>>, all |-> <<>>, between |-> FALSE]

NoOut == [op |-> "none", text |-> <<>>, any |-> None, tried |-> <<>>,
          all |-> <<>>, uniq |-> {}, sorted |-> <<>>, flag |-> FALSE, panic |-> FALSE,
          kids |-> <<>>, tokens |-> <<>>]

Init ==
    /\ kind \in Kinds
    /\ builder = DefaultNode
    /\ nadds = 0
    /\ last = NoLast
    /\ inserted = <<>>
    /\ replaced = {}
    /\ phase = "building"
    /\ tokenizer = "whitespace"
    /\ trie = DefaultNode
    /\ out = NoOut
    /\ first = NoFirst

\* self.builder.add(tokens.into_iter(), value), and the history of it
BuilderAdd(tokens, value) ==
    LET r == NodeAdd(kind, builder, tokens, value)
    IN  /\ phase = "building"
        /\ nadds < MaxAdds
        /\ builder' = r.node
        /\ nadds' = nadds + 1
        /\ last' = [called |-> TRUE, tokens |-> tokens, value |-> value, ok |-> r.ok]
        /\ inserted' = IF r.ok THEN MapPut(inserted, tokens, value) ELSE inserted
        /\ replaced' = IF r.ok /\ tokens \in DOMAIN inserted /\ inserted[tokens] # value
                       THEN replaced \cup {tokens} ELSE replaced
        /\ UNCHANGED <<kind, phase, tokenizer, trie, out, first>>

\* TrieBuilder::add_tokens(tokens, value)
AddTokens(tokens, value) == BuilderAdd(tokens, value)

\* TrieBuilder::add(key, value), T = WhitespaceTokenizer
Add(key, value) == BuilderAdd(WhitespaceTokenize(key), value)

\* TrieBuilder::build(trie_tokenizer): the builder is consumed
Build(tt) ==
    /\ phase = "building"
    /\ \E r \in NodeBuilds(kind, builder) :
          /\ phase' = IF r.ok THEN "built" ELSE "failed"
          /\ trie' = r.node
    /\ tokenizer' = tt
    /\ nadds' = 0
    /\ last' = NoLast
    /\ UNCHANGED <<kind, builder, inserted, replaced, out, first>>

\* the body of Trie::find_any(text): &self, nothing of the index is written
FindAnyStep(text) ==
    LET r == FindAny(kind, trie, Tokenize(tokenizer, text))
    IN  /\ phase = "built"
        /\ out = NoOut
        /\ out' = [NoOut EXCEPT !.op = "find_any", !.text = text,
                                !.any = r.value, !.tried = r.tried]
        /\ UNCHANGED <<kind, builder, nadds, last, inserted, replaced, phase, tokenizer, trie>>

\* Trie::find_any(text)
CallFindAny(text) == FindAnyStep(text) /\ UNCHANGED first

\* not the code: a find_all that takes what it finds out of the index
FindAllConsuming(text) ==
    /\ phase = "built"
    /\ out = NoOut
    /\ out' = [NoOut EXCEPT !.op = "find_all", !.text = text,
                            !.all = FindAll(kind, trie, Tokenize(tokenizer, text))]
    /\ trie' = IF out'.all = <<>> THEN trie ELSE DefaultNode
    /\ UNCHANGED <<kind, builder, nadds, last, inserted, replaced, phase, tokenizer>>

\* the body of Trie::find_all(text): &self, nothing of the index is written
FindAllStep(text) ==
    /\ phase = "built"
    /\ out = NoOut
    /\ out' = [NoOut EXCEPT !.op = "find_all", !.text = text,
                            !.all = FindAll(kind, trie, Tokenize(tokenizer, text))]
    /\ UNCHANGED <<kind, builder, nadds, last, inserted, replaced, phase, tokenizer, trie>>

\* Trie::find_all(text)
CallFindAll(text) == FindAllStep(text) /\ UNCHANGED first

\* the history of a query: the first find_all is kept, and whether another
\* query has run since
NoteQuery ==
    first' = IF ~first.asked
             THEN IF out'.op = "find_all"
                  THEN [asked |-> TRUE, text |-> out'.text, all |-> out'.all,
                        between |-> FALSE]
                  ELSE first
             ELSE IF out'.op = "find_all" /\ out'.text = first.text THEN first
             ELSE [first EXCEPT !.between = TRUE]

\* Trie::find_any(text) and Trie::find_all(text), noted in the history
CallFindAnyNoted(text) == FindAnyStep(text) /\ NoteQuery
CallFindAllNoted(text) == FindAllStep(text) /\ NoteQuery

\* Trie::find_unique(text)
CallFindUnique(text) ==
    /\ phase = "built"
    /\ out = NoOut
    /\ out' = [NoOut EXCEPT !.op = "find_unique", !.text = text,
                            !.uniq = FindUnique(kind, trie, Tokenize(tokenizer, text))]
    /\ UNCHANGED <<kind, builder, nadds, last, inserted, replaced, phase, tokenizer, trie, first>>

\* Trie::find_unique_sorted(text)
CallFindUniqueSorted(text) ==
    /\ phase = "built"
    /\ out = NoOut
    /\ out' = [NoOut EXCEPT !.op = "find_unique_sorted", !.text = text,
                            !.sorted = FindUniqueSorted(kind, trie, Tokenize(tokenizer, text))]
    /\ UNCHANGED <<kind, builder, nadds, last, inserted, replaced, phase, tokenizer, trie, first>>

\* Trie::has_match(text)
CallHasMatch(text) ==
    /\ phase = "built"
    /\ out = NoOut
    /\ out' = [NoOut EXCEPT !.op = "has_match", !.text = text,
                            !.flag = HasMatch(kind, trie, Tokenize(tokenizer, text))]
    /\ UNCHANGED <<kind, builder, nadds, last, inserted, replaced, phase, tokenizer, trie, first>>

\* the caller lets go of the result, after which it may search again
Return ==
    /\ out # NoOut
    /\ out' = NoOut
    /\ UNCHANGED <<kind, builder, nadds, last, inserted, replaced, phase, tokenizer, trie, first>>

Next ==
    \/ \E tokens \in AddSeqs, value \in Values : AddTokens(tokens, value)
    \/ \E key \in AddKeys, value \in Values : Add(key, value)
    \/ \E tt \in Tokenizers : Build(tt)
    \/ \E text \in QueryTexts : CallFindAny(text)
    \/ \E text \in QueryTexts : CallFindAll(text)
    \/ \E text \in QueryTexts : CallFindUnique(text)
    \/ \E text \in QueryTexts : CallFindUniqueSorted(text)
    \/ \E text \in QueryTexts : CallHasMatch(text)
    \/ Return

Spec == Init /\ [][Next]_vars

\* token sequences that are patterns: an alternation above a literal and the
\* literal it overlaps, a token that is no valid pattern at the root and below
\* it, a pattern that accepts every token, an alternation without parentheses
\* and a token that brings an anchor of its own
tab == <<"(", "a", "|", "b", ")">>
PatternSeqs == {<<tab, tc>>, <<tb>>, <<<<"(">>>>, <<ta, <<"(">>>>, <<<<".", "*">>>>,
                <<<<"a", "|", "b">>>>, <<<<"^", "a">>>>}

\* the texts searched in an index of patterns: "b", "a b", "a c", "ab"
PatternTexts == {<<"b">>, <<"a", " ", "b">>, <<"a", " ", "c">>, <<"a", "b">>}

NextPatterns ==
    \/ \E tokens \in PatternSeqs, value \in Values : AddTokens(tokens, value)
    \/ Build("whitespace")
    \/ \E text \in PatternTexts : CallFindAny(text)
    \/ \E text \in PatternTexts : CallFindAll(text)
    \/ \E text \in PatternTexts : CallFindUnique(text)
    \/ Return

\* the same builder and index, fed with patterns
SpecPatterns == Init /\ [][NextPatterns]_vars

\* the keys a generic root is made with, the token sequences added below it
\* and the token slices its get_any and get_all are called with
GenericKeys == {ta, <<".", "*">>}
GenericSeqs == {<<>>, <<tb>>, <<tb, tc>>, <<<<".", "*">>>>, <<<<"(">>>>, <<tc, <<"(">>>>}
GenericSlices == {<<>>, <<ta>>, <<ta, tb>>, <<ta, tb, tc>>, <<tb, tc>>}

\* GenericTrieNode::new(key) for a key that compiles
InitGeneric ==
    /\ kind = "generic"
    /\ \E key \in GenericKeys : builder = GenericNew(key).node
    /\ nadds = 0
    /\ last = NoLast
    /\ inserted = <<>>
    /\ replaced = {}
    /\ phase = "building"
    /\ tokenizer = "whitespace"
    /\ trie = DefaultNode
    /\ out = NoOut
    /\ first = NoFirst

\* GenericTrieNode::add(tokens, value) on the root
GenericAddTokens(tokens, value) ==
    LET r == GenericAdd(builder, tokens, value)
    IN  /\ kind = "generic"
        /\ phase = "building"
        /\ nadds < MaxAdds
        /\ builder' = r.node
        /\ nadds' = nadds + 1
        /\ last' = [called |-> TRUE, tokens |-> tokens, value |-> value, ok |-> r.ok]
        /\ inserted' = IF r.ok THEN MapPut(inserted, tokens, value) ELSE inserted
        /\ replaced' = IF r.ok /\ tokens \in DOMAIN inserted /\ inserted[tokens] # value
                       THEN replaced \cup {tokens} ELSE replaced
        /\ UNCHANGED <<kind, phase, tokenizer, trie, out, first>>

\* GenericTrieNode::build: Ok(self)
GenericBuild ==
    /\ kind = "generic"
    /\ phase = "building"
    /\ phase' = "built"
    /\ trie' = builder
    /\ nadds' = 0
    /\ last' = NoLast
    /\ UNCHANGED <<kind, builder, inserted, replaced, tokenizer, out, first>>

\* root.get_any(tokens), the inherent method of GenericTrieNode
GenericCallGetAny(tokens) ==
    /\ kind = "generic"
    /\ phase = "built"
    /\ out = NoOut
    /\ \E r \in GenericGetAny(trie, tokens) :
          out' = [NoOut EXCEPT !.op = "node_get_any", !.tried = tokens,
                                  !.any = r.value, !.panic = r.panic]
    /\ UNCHANGED <<kind, builder, nadds, last, inserted, replaced, phase, tokenizer, trie, first>>

\* root.get_all(tokens), the inherent method of GenericTrieNode
GenericCallGetAll(tokens) ==
    /\ kind = "generic"
    /\ phase = "built"
    /\ out = NoOut
    /\ \E r \in GenericGetAll(trie, tokens) :
          out' = [NoOut EXCEPT !.op = "node_get_all", !.tried = tokens, !.all = r]
    /\ UNCHANGED <<kind, builder, nadds, last, inserted, replaced, phase, tokenizer, trie, first>>

\* the tokens the root's get_children is called with
GenericTokens == {ta, tb}

\* root.get_children(token), of the trait TrieNode
GenericCallGetChildren(token) ==
    /\ kind = "generic"
    /\ phase = "built"
    /\ out = NoOut
    /\ \E r \in GenericGetChildren(trie, token) :
          out' = [NoOut EXCEPT !.op = "node_get_children", !.text = token, !.kids = r]
    /\ UNCHANGED <<kind, builder, nadds, last, inserted, replaced, phase, tokenizer, trie, first>>

NextGeneric ==
    \/ \E tokens \in GenericSeqs, value \in Values : GenericAddTokens(tokens, value)
    \/ GenericBuild
    \/ \E tokens \in GenericSlices : GenericCallGetAny(tokens)
    \/ \E tokens \in GenericSlices : GenericCallGetAll(tokens)
    \/ \E token \in GenericTokens : GenericCallGetChildren(token)
    \/ Return

\* a GenericTrieNode filled by add and searched with its own get_any / get_all
SpecGeneric == InitGeneric /\ [][NextGeneric]_vars

\* the texts searched again and again: "a b\tc", "ab"
RepeatTexts == {<<"a", " ", "b", "\t", "c">>, <<"a", "b">>}

NextRepeat ==
    \/ \E tokens \in AddSeqs, value \in Values : AddTokens(tokens, value)
    \/ Build("whitespace")
    \/ \E text \in RepeatTexts : CallFindAnyNoted(text)
    \/ \E text \in RepeatTexts : CallFindAllNoted(text)
    \/ Return

\* the same builder and index, the queries noted in the history
SpecRepeat == Init /\ [][NextRepeat]_vars

(***************************************************************************)
(* What the claims speak of                                                *)
(***************************************************************************)

\* the tokens of the text last searched
OutTokens == Tokenize(tokenizer, out.text)

\* tokens[i..] for a 0-based offset i
From(tokens, i) == SubSeq(tokens, i + 1, Len(tokens))

\* the number of occurrences of v in a Vec
CountOf(seq, v) == Cardinality({i \in DOMAIN seq : seq[i] = v})

\* the pattern written as the token p matches the whole of the token t
WholeMatch(p, t) == Len(t) \in AltEnds(p, 1, Len(p), t, {0})

\* the k-th pattern of an inserted sequence accepts a query token: equality for
\* exact tokens, a case-insensitive match of the whole token for patterns
Accepts(p, t) == IF kind = "string" THEN p = t ELSE WholeMatch(p, t)

\* the inserted sequence P matches the run of |P| tokens at offset i
MatchesAt(P, tokens, i) ==
    /\ i + Len(P) <= Len(tokens)
    /\ \A k \in 1..Len(P) : Accepts(P[k], tokens[i + k])

\* the offsets at which P matches a run of the tokens
Occurrences(P, tokens) == {i \in 0..(Len(tokens) - 1) : MatchesAt(P, tokens, i)}

\* the edges below a node (keys of a map, indices of a Vec), the node an edge
\* leads to and whether the edge's pattern accepts a token
Edges(node) == DOMAIN node.children
ChildAt(node, e) == IF kind = "regex" THEN node.children[e].node ELSE node.children[e]
EdgeAccepts(node, e, token) ==
    CASE kind = "string"   -> e = token
      [] kind = "regex"    -> IsMatch(node.children[e].pat, token)
      [] kind = "regexset" -> IsMatch(node.patterns[e], token)

RECURSIVE Paths(_)
\* every path of edges from a node downwards, the empty one included
Paths(node) ==
    {<<>>} \cup UNION {{<<e>> \o q : q \in Paths(ChildAt(node, e))} : e \in Edges(node)}

RECURSIVE NodeAt(_, _)
NodeAt(node, path) ==
    IF path = <<>> THEN node ELSE NodeAt(ChildAt(node, Head(path)), Tail(path))

RECURSIVE PathMatches(_, _, _)
\* the patterns along the path accept the first tokens, position by position
PathMatches(node, path, tokens) ==
    \/ path = <<>>
    \/ /\ tokens # <<>>
       /\ EdgeAccepts(node, Head(path), Head(tokens))
       /\ PathMatches(ChildAt(node, Head(path)), Tail(path), Tail(tokens))

\* the pairs (start offset, non-empty path from the root matching there) that
\* end at a node carrying the value v
Hits(tokens, v) ==
    {h \in (0..(Len(tokens) - 1)) \X Paths(trie) :
        /\ h[2] # <<>>
        /\ PathMatches(trie, h[2], From(tokens, h[1]))
        /\ NodeAt(trie, h[2]).value = Some(v)}

RECURSIVE Descend(_, _, _)
\* the node the first-match descent stands at after reading k tokens without
\* looking at values, None when a token has no matching child
Descend(node, tokens, k) ==
    IF k = 0 THEN Some(node)
    ELSE LET c == GetChild(kind, node, Head(tokens))
         IN  IF IsSome(c) THEN Descend(c[1], Tail(tokens), k - 1) ELSE None

\* node k of the descent over the tokens exists and is the first to carry a value
FirstValueAt(tokens, k) ==
    /\ IsSome(Descend(trie, tokens, k))
    /\ IsSome(Descend(trie, tokens, k)[1].value)
    /\ \A j \in 0..(k - 1) : ~IsSome(Descend(trie, tokens, j)[1].value)

\* what get_any returned at a tried offset, read off the result of find_any:
\* the loop went on after every offset but, on a success, the last
TriedResult(n) ==
    IF n = Len(out.tried) /\ IsSome(out.any) THEN out.any ELSE None

(***************************************************************************)
(* Claims                                                                  *)
(***************************************************************************)

\* the values of the inserted non-empty sequences that match a run of the tokens
ExpectedUnique(tokens) ==
    {inserted[P] : P \in {Q \in DOMAIN inserted : Q # <<>> /\ Occurrences(Q, tokens) # {}}}

\* C1: in every node variant, find_unique(text) is exactly the set of the
\* last-written values of the inserted non-empty token sequences that match a
\* contiguous run of the query's tokens, pattern by pattern.
C1_FindUniqueIsInsertedMatches ==
    (phase = "built" /\ out.op = "find_unique") => out.uniq = ExpectedUnique(OutTokens)

\* C1 for the exact-token and the compiled-set variants alone
C1_HoldsOffPerChildPattern ==
    (phase = "built" /\ out.op = "find_unique" /\ kind # "regex")
        => out.uniq = ExpectedUnique(OutTokens)

RECURSIVE ConcatOffsets(_, _)
\* get_all(root, tokens[0..]) ++ ... ++ get_all(root, tokens[n-1..])
ConcatOffsets(tokens, n) ==
    IF n = 0 THEN <<>>
    ELSE ConcatOffsets(tokens, n - 1) \o GetAll(kind, trie, From(tokens, n - 1))

\* C2: find_all(text) is the concatenation, for the start offsets 0 .. len-1 in
\* ascending order, of get_all(root, tokens[i..]): no offset skipped, nothing added.
C2_FindAllIsOffsetConcat ==
    (phase = "built" /\ out.op = "find_all")
        => out.all = ConcatOffsets(OutTokens, Len(OutTokens))

\* C2's case: values were found from two different start offsets
C2_Witness ==
    /\ phase = "built" /\ out.op = "find_all"
    /\ \E i, j \in 0..(Len(OutTokens) - 1) :
          /\ i < j
          /\ GetAll(kind, trie, From(OutTokens, i)) # <<>>
          /\ GetAll(kind, trie, From(OutTokens, j)) # <<>>

\* C3: find_all(text) holds one occurrence of a node's value for each pair of a
\* start offset and a root-to-node path whose patterns match the tokens from
\* there position by position and whose end node carries a value: the descent
\* goes on below a node with a value, and duplicates are kept.
C3_FindAllOnePerOffsetAndPath ==
    (phase = "built" /\ out.op = "find_all")
        => \A v \in Values : CountOf(out.all, v) = Cardinality(Hits(OutTokens, v))

\* C3's case: "b c" and "a b c" carry the same value and "a b\tc" finds it
\* twice, from offset 1 and from offset 0
C3_Witness ==
    /\ phase = "built" /\ out.op = "find_all" /\ kind = "string"
    /\ DOMAIN inserted = {<<tb, tc>>, <<ta, tb, tc>>}
    /\ out.text = <<"a", " ", "b", "\t", "c">>
    /\ out.all = <<TRUE, TRUE>>

\* C3's other case: a value is found below a node that carries a value
C3_WitnessDeeper ==
    /\ phase = "built" /\ out.op = "find_all"
    /\ \E h \in Hits(OutTokens, TRUE) \cup Hits(OutTokens, FALSE) :
          \E n \in 1..(Len(h[2]) - 1) :
              IsSome(NodeAt(trie, SubSeq(h[2], 1, n)).value)

\* C4: in the first-match descent, a value at the node reached after a strict
\* prefix of the tokens is returned, and the descent does not go on to a longer
\* match from the same start offset.
C4_GetAnyShortCircuits ==
    (phase = "built" /\ out.op = "find_any")
        => \A n \in DOMAIN out.tried :
              LET tokens == From(OutTokens, out.tried[n])
              IN  \A k \in 0..(Len(tokens) - 1) :
                      FirstValueAt(tokens, k)
                          => TriedResult(n) = Descend(trie, tokens, k)[1].value

\* C4's case: the value returned sits at a strict prefix and a node further
\* down the same descent carries another value
C4_Witness ==
    /\ phase = "built" /\ out.op = "find_any" /\ IsSome(out.any)
    /\ LET tokens == From(OutTokens, out.tried[Len(out.tried)])
       IN  \E k \in 0..(Len(tokens) - 1) : \E m \in (k + 1)..Len(tokens) :
              /\ FirstValueAt(tokens, k)
              /\ IsSome(Descend(trie, tokens, m))
              /\ IsSome(Descend(trie, tokens, m)[1].value)
              /\ Descend(trie, tokens, m)[1].value # out.any

\* C5: find_any(text) tries the start offsets in ascending order and returns
\* the result of the smallest offset whose descent yields a value; no offset is
\* tried after a success, and the result is None exactly when no offset yields
\* a value.
C5_FindAnyFirstOffsetWins ==
    (phase = "built" /\ out.op = "find_any")
        => LET tokens == OutTokens
               yields(i) == IsSome(GetAny(kind, trie, From(tokens, i)))
               offsets == 0..(Len(tokens) - 1)
           IN  /\ \A n \in DOMAIN out.tried : out.tried[n] = n - 1
               /\ \A n \in DOMAIN out.tried : n < Len(out.tried) => ~yields(out.tried[n])
               /\ IsSome(out.any) =>
                     /\ out.tried # <<>>
                     /\ out.any = GetAny(kind, trie, From(tokens, Len(out.tried) - 1))
               /\ ~IsSome(out.any) => Len(out.tried) = Len(tokens)
               /\ ~IsSome(out.any) <=> \A i \in offsets : ~yields(i)

\* C5's case: offset 0 failed, a later offset succeeded, and an offset after
\* it, which was not tried, would have yielded a value too
C5_Witness ==
    /\ phase = "built" /\ out.op = "find_any" /\ IsSome(out.any)
    /\ Len(out.tried) >= 2
    /\ \E i \in Len(out.tried)..(Len(OutTokens) - 1) :
          IsSome(GetAny(kind, trie, From(OutTokens, i)))

\* C6: after add(P, A) and later add(P, B) and build, a query that ends at
\* P's node returns B and never A, and find_all yields B once per match of P.
\* Stated for an index into which P alone was inserted.
C6_OverwriteLastWriteWins ==
    (phase = "built" /\ out.op \in {"find_any", "find_all"})
        => \A P \in replaced :
              (P # <<>> /\ DOMAIN inserted = {P}) =>
                  LET n == Cardinality(Occurrences(P, OutTokens))
                  IN  /\ out.op = "find_all" => out.all = [i \in 1..n |-> inserted[P]]
                      /\ out.op = "find_any" =>
                            out.any = IF n > 0 THEN Some(inserted[P]) ELSE None

\* the indexes build can give from a construction tree
OkBuilds(b) == {r.node : r \in {x \in NodeBuilds(kind, b) : x.ok}}

\* what find_any can return, and how often find_all can hold each value
AnyResults(b, tokens) == {FindAny(kind, n, tokens).value : n \in OkBuilds(b)}
AllCounts(b, tokens) ==
    {[v \in Values |-> CountOf(FindAll(kind, n, tokens), v)] : n \in OkBuilds(b)}

\* the indexes built from b1 and from b2 answer every query alike
SameAnswers(b1, b2) ==
    \A tt \in Tokenizers, text \in QueryTexts :
        LET tokens == Tokenize(tt, text)
        IN  /\ AnyResults(b1, tokens) = AnyResults(b2, tokens)
            /\ AllCounts(b1, tokens) = AllCounts(b2, tokens)

\* C7: inserting the same (token sequence, value) pair a second time leaves
\* every find_any result and every find_all multiset as they were after the
\* first insertion.
C7_ReinsertionIdempotent ==
    [][(/\ last.called /\ last.ok /\ last'.called /\ last'.ok
        /\ last'.tokens = last.tokens /\ last'.value = last.value)
          => SameAnswers(builder, builder')]_vars

RECURSIVE SiblingsUnique(_)
\* no two children of a node of the construction tree carry the same pattern
\* text (the keys of a map are distinct as they are)
SiblingsUnique(node) ==
    /\ kind = "regex" =>
          \A i, j \in DOMAIN node.children :
              i # j => node.children[i].pat # node.children[j].pat
    /\ \A e \in Edges(node) : SiblingsUnique(ChildAt(node, e))

\* C8: after any sequence of add calls, in every builder variant, no
\* construction node has two children with the same pattern text.
C8_SiblingPatternsUnique == SiblingsUnique(builder)

\* C9: for every index and every provided tokenizer, find_any("") is None and
\* find_all("") is empty.
C9_EmptyTextFindsNothing ==
    (phase = "built" /\ out.text = <<>>)
        => /\ out.op = "find_any" => out.any = None
           /\ out.op = "find_all" => out.all = <<>>

\* every value inserted is true
AllInsertedTrue == replaced = {} /\ \A P \in DOMAIN inserted : inserted[P] = TRUE

\* the token sequence of some inserted phrase is a contiguous run of the tokens
SomePhraseOccurs(tokens) ==
    \E P \in DOMAIN inserted : \E i \in 0..Len(tokens) :
        i + Len(P) <= Len(tokens) /\ SubSeq(tokens, i + 1, i + Len(P)) = P

\* C10 as stated: in an exact-token index whose values are all true,
\* has_match(text) is true iff the token sequence of some inserted phrase is a
\* contiguous run of the query's tokens.
C10_HasMatchIffPhraseOccurs ==
    (phase = "built" /\ kind = "string" /\ out.op = "has_match" /\ AllInsertedTrue)
        => (out.flag <=> SomePhraseOccurs(OutTokens))

\* C10 amended: ... iff the query has at least one token and the token sequence
\* of some inserted phrase is a contiguous run of the query's tokens.
C10_HasMatchIffPhraseOccursInTokens ==
    (phase = "built" /\ kind = "string" /\ out.op = "has_match" /\ AllInsertedTrue)
        => (out.flag <=> (OutTokens # <<>> /\ SomePhraseOccurs(OutTokens)))

\* C10's case: "a b" is interrupted by a foreign token in "a c b" and the
\* shorter phrase "c" occurs there, found from offset 1
C10_Witness ==
    /\ phase = "built" /\ kind = "string" /\ out.op = "has_match" /\ AllInsertedTrue
    /\ DOMAIN inserted = {<<ta, tb>>, <<tc>>}
    /\ out.text = <<"a", " ", "c", " ", "b">>
    /\ tokenizer = "whitespace"
    /\ out.flag

\* C11: has_match(text) is true exactly when find_any(text) is Some(true): it
\* is false when find_any is None and when the value find_any reaches first is
\* false, whatever is reachable later or deeper.
C11_HasMatchIsFindAnySomeTrue ==
    (phase = "built" /\ out.op = "has_match")
        => (out.flag <=> FindAny(kind, trie, OutTokens).value = Some(TRUE))

\* C11's case: the first value reached is false, the value true is reachable
\* from a later offset, and has_match is false
C11_Witness ==
    /\ phase = "built" /\ out.op = "has_match"
    /\ ~out.flag
    /\ FindAny(kind, trie, OutTokens).value = Some(FALSE)
    /\ \E i \in 1..(Len(OutTokens) - 1) :
          GetAny(kind, trie, From(OutTokens, i)) = Some(TRUE)

\* the values at the ends of the paths that match the tokens from some offset
ValuesHit(tokens) == {v \in Values : Hits(tokens, v) # {}}

\* the insertions "(a|b) c" -> true and "b" -> false (with replaced = {}: neither
\* was given another value before)
OverlapPair == [P \in {<<tab, tc>>, <<tb>>} |-> P = <<tab, tc>>]

\* C12: when one token is accepted by several sibling patterns, get_children
\* returns the child of every one of them and find_all explores each: with
\* "(a|b) c" -> true and "b" -> false inserted, find_unique("b") and
\* find_unique("a b") are {false} and find_unique("a c") is {true}.
C12_OverlapAllChildrenExplored ==
    (phase = "built" /\ out.op = "find_unique")
        => /\ \A path \in Paths(trie) : \A i \in DOMAIN OutTokens :
                 LET n  == NodeAt(trie, path)
                     cs == GetChildren(kind, n, OutTokens[i])
                     es == {e \in Edges(n) : EdgeAccepts(n, e, OutTokens[i])}
                 IN  /\ Len(cs) = Cardinality(es)
                     /\ \A e \in es : \E j \in DOMAIN cs : cs[j] = ChildAt(n, e)
           /\ out.uniq = ValuesHit(OutTokens)
           /\ (kind # "string" /\ inserted = OverlapPair /\ replaced = {})
                 => /\ out.text = <<"b">> => out.uniq = {FALSE}
                    /\ out.text = <<"a", " ", "b">> => out.uniq = {FALSE}
                    /\ out.text = <<"a", " ", "c">> => out.uniq = {TRUE}

\* C12's case: the alternation and the literal both accept "b", both children
\* are returned, and the value under the literal is found
C12_Witness ==
    /\ phase = "built" /\ out.op = "find_unique" /\ kind # "string"
    /\ inserted = OverlapPair /\ replaced = {}
    /\ out.text = <<"b">>
    /\ Len(GetChildren(kind, trie, tb)) = 2
    /\ out.uniq = {FALSE}

\* the pattern text on an edge of the construction tree
BuilderPattern(node, e) == IF kind = "regex" THEN node.children[e].pat ELSE e

RECURSIVE AllCompile(_)
\* the patterns of every level of the construction tree compile (exact tokens
\* are not compiled)
AllCompile(node) ==
    \A e \in Edges(node) :
        /\ kind # "string" => CompileOk(BuilderPattern(node, e))
        /\ AllCompile(ChildAt(node, e))

\* C13: build returns an index only if the patterns of every level of the
\* construction tree compiled; if one fails at any level the whole build fails
\* and there is no index, partially compiled or otherwise.
C13_BuildAllOrNothing ==
    /\ phase = "built" => AllCompile(builder)
    /\ phase = "failed" => (~AllCompile(builder) /\ trie = DefaultNode /\ out = NoOut)

\* C13's case: the patterns at the root compile, one below does not, and
\* build failed
C13_Witness ==
    /\ phase = "failed" /\ kind = "regexset"
    /\ \A e \in Edges(builder) : CompileOk(e)
    /\ ~AllCompile(builder)

\* C14: in the pattern-capable variants no token that is not a valid pattern
\* is accepted by an add that returned Ok and then built into an index.
C14_MalformedPatternSurfaces ==
    (phase = "built" /\ kind # "string")
        => \A P \in DOMAIN inserted : \A k \in DOMAIN P : CompileOk(Anchor(P[k]))

\* the pattern text on an edge of the index
TriePattern(node, e) ==
    IF kind = "regex" THEN node.children[e].pat
    ELSE IF kind = "regexset" THEN node.patterns[e] ELSE e

\* the token a pattern text was made of: without the anchors add put around it
TokenOf(pattern) == SubSeq(pattern, 2, Len(pattern) - 1)

\* C19: the child created for a pattern token p is returned for a query token
\* t only if p matches the whole of t, whatever the pattern text.
C19_WholeTokenMatchOnly ==
    (phase = "built" /\ kind # "string" /\ out.op = "find_all")
        => \A path \in Paths(trie) : \A i \in DOMAIN OutTokens :
              LET n == NodeAt(trie, path)
              IN  \A e \in Edges(n) :
                      EdgeAccepts(n, e, OutTokens[i])
                          => WholeMatch(TokenOf(TriePattern(n, e)), OutTokens[i])

\* a pattern text with two anchors at its start or at its end
DoubleAnchored(p) ==
    \/ Len(p) >= 2 /\ p[1] = "^" /\ p[2] = "^"
    \/ Len(p) >= 2 /\ p[Len(p)] = "$" /\ p[Len(p) - 1] = "$"

\* C20: add strips the anchors a token brings before it wraps the token as
\* "^...$": no pattern key of the construction tree carries a doubled anchor.
C20_NoDoubledAnchor ==
    kind # "string"
        => \A path \in Paths(builder) :
              LET n == NodeAt(builder, path)
              IN  \A e \in Edges(n) : ~DoubleAnchored(BuilderPattern(n, e))

\* C18: find_unique(text) is the set of the distinct values in find_all(text);
\* find_unique_sorted(text) is that set in ascending order, each value once;
\* both are empty exactly when find_all(text) is empty.
C18_UniqueIsSetOfFindAll ==
    LET all == FindAll(kind, trie, OutTokens)
    IN  /\ (phase = "built" /\ out.op = "find_unique")
              => /\ out.uniq = {all[i] : i \in DOMAIN all}
                 /\ out.uniq = {} <=> all = <<>>
        /\ (phase = "built" /\ out.op = "find_unique_sorted")
              => /\ {out.sorted[i] : i \in DOMAIN out.sorted} = {all[i] : i \in DOMAIN all}
                 /\ \A i, j \in DOMAIN out.sorted :
                        i < j => ValueLess(out.sorted[i], out.sorted[j])
                 /\ out.sorted = <<>> <=> all = <<>>

\* C18's case: find_all found true before false and one of them again, and
\* find_unique_sorted gives false, true
C18_Witness ==
    /\ phase = "built" /\ out.op = "find_unique_sorted"
    /\ LET all == FindAll(kind, trie, OutTokens)
       IN  /\ Len(all) >= 3
           /\ all[1] = TRUE
           /\ CountOf(all, FALSE) >= 1
    /\ out.sorted = <<FALSE, TRUE>>

\* C15: get_any, get_all, find_any and find_all return a value for every token
\* slice and every text, the empty slice included, and never abort.
C15_QueriesNeverAbort == ~out.panic

RECURSIVE AddInOrder(_, _, _)
\* the construction tree after the insertions of the history, made in the order o
AddInOrder(o, i, node) ==
    IF i > Len(o) THEN node
    ELSE AddInOrder(o, i + 1, NodeAdd(kind, node, o[i], inserted[o[i]]).node)

\* every index built from b1 and every index built from b2 give the same
\* find_any result and the same find_all multiset for every text
SameIndexes(b1, b2) ==
    \A n1 \in OkBuilds(b1), n2 \in OkBuilds(b2) :
        \A tt \in Tokenizers, text \in QueryTexts :
            LET tokens == Tokenize(tt, text)
            IN  /\ FindAny(kind, n1, tokens).value = FindAny(kind, n2, tokens).value
                /\ \A v \in Values : CountOf(FindAll(kind, n1, tokens), v)
                                        = CountOf(FindAll(kind, n2, tokens), v)

\* C17: two builders of one variant given the same insertions, of pairwise
\* different token sequences, in different orders build indexes that answer
\* find_any and find_all alike for every text.
C17_InsertionOrderIndependent ==
    (phase = "building" /\ replaced = {} /\ nadds = Cardinality(DOMAIN inserted))
        => \A o \in Orders(DOMAIN inserted) :
              SameIndexes(builder, AddInOrder(o, 1, DefaultNode))

\* C17 for the exact-token variant alone
C17_HoldsForExactTokens ==
    (kind = "string" /\ phase = "building" /\ replaced = {}
        /\ nadds = Cardinality(DOMAIN inserted))
        => \A o \in Orders(DOMAIN inserted) :
              SameIndexes(builder, AddInOrder(o, 1, DefaultNode))

\* token sequences of literal tokens in both letter cases, given to add_tokens
\* as they are
CaseSeqs == {<<<<"A">>>>, <<ta>>, <<ta, <<"B">>>>, <<ta, tb>>}

\* the key given to add, which the builder's WhitespaceTokenizer splits and
\* lowercases: "A b"
CaseKeys == {<<"A", " ", "b">>}

\* the texts searched: "a", "A", "A b", "a B"
CaseTexts == {<<"a">>, <<"A">>, <<"A", " ", "b">>, <<"a", " ", "B">>}

NextCase ==
    \/ \E tokens \in CaseSeqs, value \in Values : AddTokens(tokens, value)
    \/ \E key \in CaseKeys, value \in Values : Add(key, value)
    \/ \E tt \in Tokenizers : Build(tt)
    \/ \E text \in CaseTexts : CallFindAny(text)
    \/ \E text \in CaseTexts : CallFindAll(text)
    \/ Return

\* the same builder and index, fed with literal tokens in both letter cases
SpecCase == Init /\ [][NextCase]_vars

RECURSIVE StringReplay(_, _, _)
\* the exact-token construction tree after the insertions of the history (the
\* map of a StringTrieNode keeps one child per token and the last value of a
\* sequence, so the order o does not matter)
StringReplay(o, i, node) ==
    IF i > Len(o) THEN node
    ELSE StringReplay(o, i + 1, StringAdd(node, o[i], inserted[o[i]]).node)

\* the exact-token index given the insertions this builder was given
ExactIndex == StringReplay(CHOOSE o \in Orders(DOMAIN inserted) : TRUE, 1, DefaultNode)

\* C21: for the same insertions of phrases of literal tokens, in any letter
\* case, and the same query tokenizer, a pattern-based index returns the
\* find_all multiset and the find_any result of the exact-token index, for
\* every text.
C21_ExactAndPatternAgree ==
    (phase = "built" /\ kind # "string" /\ replaced = {})
        => /\ out.op = "find_all" =>
                 \A v \in Values :
                     CountOf(out.all, v) = CountOf(FindAll("string", ExactIndex, OutTokens), v)
           /\ out.op = "find_any" =>
                 out.any = FindAny("string", ExactIndex, OutTokens).value

\* every token inserted is in lower case, as the tokens of the query are
LowercaseOnly ==
    /\ tokenizer = "whitespace"
    /\ \A P \in DOMAIN inserted : \A k \in DOMAIN P : ToLowercase(P[k]) = P[k]

\* C21 for the find_all of a compiled-set index and lower-case tokens on both
\* sides, where the letter case plays no part
C21_HoldsInLowerCase ==
    (phase = "built" /\ kind = "regexset" /\ replaced = {} /\ LowercaseOnly
        /\ out.op = "find_all")
        => \A v \in Values :
               CountOf(out.all, v) = CountOf(FindAll("string", ExactIndex, OutTokens), v)

\* C21 for the compiled-set index alone, which has no duplicate children
C21_CompiledSetAgrees ==
    (phase = "built" /\ kind = "regexset" /\ replaced = {} /\ out.op = "find_all")
        => \A v \in Values :
               CountOf(out.all, v) = CountOf(FindAll("string", ExactIndex, OutTokens), v)

\* the children at strictly ascending positions of a Vec of children, given as
\* the nodes themselves
AscendingPick(cs, children) ==
    \E idx \in [DOMAIN cs -> DOMAIN children] :
        /\ \A i, j \in DOMAIN cs : i < j => idx[i] < idx[j]
        /\ \A j \in DOMAIN cs : cs[j] = children[idx[j]]

\* the children of a per-child-pattern node in the order they were pushed
PushedNodes(node) == [i \in DOMAIN node.children |-> node.children[i].node]

\* get_children of a node of an index of one of the three index variants: at
\* most one child for exact tokens, ascending child index for a compiled set,
\* the order of insertion (the order of the Vec) for per-child patterns
OrderedChildren(n, token) ==
    LET cs == GetChildren(kind, n, token)
    IN  /\ kind = "string" => Len(cs) <= 1
        /\ kind = "regexset" =>
              /\ AscendingPick(cs, n.children)
              /\ Len(cs) = Cardinality(SetMatches(n, token))
        /\ kind = "regex" => AscendingPick(cs, PushedNodes(n))

\* C22: get_children(token) returns its result in an order that the node and
\* the token determine, no child repeated: one child at most for exact tokens,
\* ascending child index in a compiled set, insertion order for a node whose
\* children carry their own patterns.  For a GenericTrieNode the call has one
\* possible result.
C22_GetChildrenOrderDetermined ==
    /\ (phase = "built" /\ kind \in Kinds /\ out.op = "find_all")
          => \A path \in Paths(trie) : \A i \in DOMAIN OutTokens :
                 OrderedChildren(NodeAt(trie, path), OutTokens[i])
    /\ (phase = "built" /\ kind = "generic" /\ out.op = "node_get_children")
          => GenericGetChildren(trie, out.text) = {out.kids}

\* C22 for the three variants an index is built of
C22_HoldsForIndexVariants ==
    (phase = "built" /\ kind \in Kinds /\ out.op = "find_all")
        => \A path \in Paths(trie) : \A i \in DOMAIN OutTokens :
               OrderedChildren(NodeAt(trie, path), OutTokens[i])

\* C22, the part that holds for a GenericTrieNode too: no child is returned twice
C22_NoChildRepeated ==
    (phase = "built" /\ kind = "generic" /\ out.op = "node_get_children")
        => \A i, j \in DOMAIN out.kids : i # j => out.kids[i].key # out.kids[j].key

\* p is a prefix of P, and the prefixes of the inserted token sequences
IsPrefix(p, P) == Len(p) <= Len(P) /\ SubSeq(P, 1, Len(p)) = p
InsertedPrefixes == {SubSeq(P, 1, n) : <<P, n>> \in
                        UNION {{<<P, n>> : n \in 0..Len(P)} : P \in DOMAIN inserted}}

\* C23: in the exact-token construction tree a node is reachable by the token
\* path p iff p is a prefix of an inserted sequence; its children are keyed by
\* exactly the tokens that follow p in inserted sequences; it carries a value
\* iff an inserted sequence equals p; len() is the number of distinct next
\* tokens and len_recursive() of the root the number of distinct non-empty
\* prefixes of the inserted sequences.  (The root, reached by the empty path,
\* is the node the adds start from.)
C23_ExactTreeIsPrefixTree ==
    kind = "string"
        => /\ Paths(builder) = InsertedPrefixes \cup {<<>>}
           /\ \A p \in Paths(builder) :
                 LET n    == NodeAt(builder, p)
                     next == {P[Len(p) + 1] :
                                 P \in {Q \in DOMAIN inserted : IsPrefix(p, Q) /\ Len(Q) > Len(p)}}
                 IN  /\ DOMAIN n.children = next
                     /\ StringLen(n) = Cardinality(next)
                     /\ IsSome(n.value) <=> p \in DOMAIN inserted
                     /\ p \in DOMAIN inserted => n.value = Some(inserted[p])
           /\ StringLenRecursive(builder) = Cardinality(InsertedPrefixes \ {<<>>})

\* C23's case: "a b" and "a b c" were inserted, they share the nodes of "a"
\* and "a b", the node of "a b" carries a value and the node of "a" none
C23_Witness ==
    /\ kind = "string"
    /\ DOMAIN inserted = {<<ta, tb>>, <<ta, tb, tc>>}
    /\ StringLen(builder) = 1
    /\ StringLenRecursive(builder) = 3
    /\ IsSome(NodeAt(builder, <<ta, tb>>).value)
    /\ ~IsSome(NodeAt(builder, <<ta>>).value)

\* the token sequences added to a node and the token slices its get_any and
\* get_all are called with: one phrase alone, two phrases under one first
\* token, a phrase that extends another, and slices that are a phrase, go past
\* one, stop short of one, leave one in the middle or start with a foreign token
NodeSeqs == {<<>>, <<tb>>, <<ta, tb>>, <<ta, tc>>, <<ta, tb, tc>>}
NodeSlices == {<<>>, <<ta>>, <<tb>>, <<tc>>, <<ta, tb>>, <<ta, tb, tc>>, <<ta, tc, tb>>}

\* root.get_any(tokens), of the trait
CallGetAny(tokens) ==
    /\ phase = "built"
    /\ out = NoOut
    /\ out' = [NoOut EXCEPT !.op = "get_any", !.tried = tokens,
                            !.any = GetAny(kind, trie, tokens)]
    /\ UNCHANGED <<kind, builder, nadds, last, inserted, replaced, phase, tokenizer, trie, first>>

\* root.get_all(tokens), of the trait
CallGetAll(tokens) ==
    /\ phase = "built"
    /\ out = NoOut
    /\ out' = [NoOut EXCEPT !.op = "get_all", !.tried = tokens,
                            !.all = GetAll(kind, trie, tokens)]
    /\ UNCHANGED <<kind, builder, nadds, last, inserted, replaced, phase, tokenizer, trie, first>>

NextNode ==
    \/ \E tokens \in NodeSeqs, value \in Values : AddTokens(tokens, value)
    \/ Build("noop")
    \/ \E tokens \in NodeSlices : CallGetAny(tokens)
    \/ \E tokens \in NodeSlices : CallGetAll(tokens)
    \/ Return

\* a node filled by add, built, and searched with the trait's get_any / get_all
SpecNode == Init /\ [][NextNode]_vars

\* the inserted token sequences that are a prefix of the tokens
InsertedPrefixesOf(tokens) == {P \in DOMAIN inserted : IsPrefix(P, tokens)}

\* C24: for an exact-token node, get_any(tokens) is the value of the shortest
\* inserted token sequence that is a prefix of tokens, and None when no
\* inserted sequence is a prefix of tokens.
C24_GetAnyShortestInsertedPrefix ==
    (phase = "built" /\ kind = "string" /\ out.op = "get_any")
        => LET pre == InsertedPrefixesOf(out.tried)
           IN  IF pre = {} THEN out.any = None
               ELSE \E P \in pre : /\ \A Q \in pre : Len(P) <= Len(Q)
                                   /\ out.any = Some(inserted[P])

\* C24's case: "a b" and "a b c" carry different values and get_any of
\* "a b c" returns the value of "a b"
C24_Witness ==
    /\ phase = "built" /\ kind = "string" /\ out.op = "get_any"
    /\ out.tried = <<ta, tb, tc>>
    /\ DOMAIN inserted = {<<ta, tb>>, <<ta, tb, tc>>}
    /\ inserted[<<ta, tb>>] # inserted[<<ta, tb, tc>>]
    /\ out.any = Some(inserted[<<ta, tb>>])

\* C24's other cases: the tokens stop short of the one phrase, or leave it
\* after its first token, and get_any returns None
C24_WitnessNone ==
    /\ phase = "built" /\ kind = "string" /\ out.op = "get_any"
    /\ DOMAIN inserted = {<<ta, tb>>}
    /\ out.tried \in {<<ta>>, <<ta, tc, tb>>}
    /\ out.any = None

\* the length of the strings given to the tokenizer
MaxTextLen == 4

\* the characters of those strings: a letter in each case, two of the
\* separators and a white-space character that is no separator
TextChars == {"a", "B", " ", "\t", "\f"}

\* every string of at most MaxTextLen characters
TextInputs == UNION {[1..n -> TextChars] : n \in 0..MaxTextLen}

\* WhitespaceTokenizer::tokenize(s), called on its own
CallTokenize(s) ==
    /\ out = NoOut
    /\ out' = [NoOut EXCEPT !.op = "tokenize", !.text = s, !.tokens = WhitespaceTokenize(s)]
    /\ UNCHANGED <<kind, builder, nadds, last, inserted, replaced, phase, tokenizer, trie, first>>

NextTokenize ==
    \/ \E s \in TextInputs : CallTokenize(s)
    \/ Return

\* the tokenizer alone, applied to every short string
SpecTokenize == Init /\ [][NextTokenize]_vars

\* the length of the run of non-separators s starts with
RECURSIVE RunLen(_)
RunLen(s) ==
    IF s = <<>> \/ Head(s) \in WHITESPACE_CHARS THEN 0 ELSE 1 + RunLen(Tail(s))

RECURSIVE MaximalRuns(_)
\* the maximal runs of characters other than space, tab, CR and LF, in their
\* order, each in lower case
MaximalRuns(s) ==
    IF s = <<>> THEN <<>>
    ELSE IF Head(s) \in WHITESPACE_CHARS THEN MaximalRuns(Tail(s))
    ELSE LET n == RunLen(s)
         IN  <<ToLowercase(SubSeq(s, 1, n))>> \o MaximalRuns(SubSeq(s, n + 1, Len(s)))

\* C25: for every input string, WhitespaceTokenizer.tokenize returns, in their
\* order, the lowercased maximal runs of the characters that are not space,
\* tab, CR or LF; no token is empty, and an empty or all-separator input gives
\* the empty sequence.
C25_TokenizeIsMaximalRuns ==
    out.op = "tokenize"
        => /\ out.tokens = MaximalRuns(out.text)
           /\ \A i \in DOMAIN out.tokens : out.tokens[i] # <<>>
           /\ (\A i \in DOMAIN out.text : out.text[i] \in WHITESPACE_CHARS) => out.tokens = <<>>

\* C25 for the strings whose only white space is space, tab, CR and LF
C25_HoldsForSeparatorsOnly ==
    (out.op = "tokenize" /\ \A i \in DOMAIN out.text : out.text[i] # "\f")
        => /\ out.tokens = MaximalRuns(out.text)
           /\ \A i \in DOMAIN out.tokens : out.tokens[i] # <<>>

\* C26: find_any never returns a value that find_all does not: if
\* find_any(text) is Some(v) then v occurs in find_all(text), also when a value
\* was inserted under the empty token sequence and sits at the root.
C26_FindAnyWithinFindAll ==
    (phase = "built" /\ out.op = "find_any" /\ IsSome(out.any))
        => out.any[1] \in ToSet(FindAll(kind, trie, OutTokens))

\* C26 for the indexes whose root carries no value
C26_HoldsWithoutRootValue ==
    (phase = "built" /\ out.op = "find_any" /\ IsSome(out.any) /\ ~IsSome(trie.value))
        => out.any[1] \in ToSet(FindAll(kind, trie, OutTokens))

\* C27: find_any finds a match whenever one exists: in every node variant, if
\* find_all(text) is not empty then find_any(text) is Some, also when a token
\* is accepted by several sibling patterns and only a child that is not the
\* first of them leads to a value.
C27_FindAnyFindsWhatFindAllFinds ==
    (phase = "built" /\ out.op = "find_any")
        => (FindAll(kind, trie, OutTokens) # <<>> => IsSome(out.any))

\* C27 for the exact-token variant, where a token has one child at most
C27_HoldsForExactTokens ==
    (phase = "built" /\ kind = "string" /\ out.op = "find_any")
        => (FindAll(kind, trie, OutTokens) # <<>> => IsSome(out.any))

\* C27's case: with "(a|b) c" and "b" inserted, in this order, in a node with
\* per-child patterns, find_any("b") follows the alternation, the first child
\* that accepts "b", and returns None, while find_all("b") finds the value of "b"
C27_OverlapCase ==
    /\ phase = "built" /\ kind = "regex" /\ out.op = "find_any"
    /\ inserted = OverlapPair /\ replaced = {}
    /\ out.text = <<"b">>
    /\ out.any = None
    /\ FindAll(kind, trie, OutTokens) = <<FALSE>>

RECURSIVE MatchesFromOffset(_, _, _)
\* the values of the inserted sequences that are the n, n + 1, ... tokens at
\* offset i, by increasing length
MatchesFromOffset(tokens, i, n) ==
    IF i + n > Len(tokens) THEN <<>>
    ELSE LET run == SubSeq(tokens, i + 1, i + n)
         IN  (IF run \in DOMAIN inserted THEN <<inserted[run]>> ELSE <<>>)
             \o MatchesFromOffset(tokens, i, n + 1)

RECURSIVE OrderedMatches(_, _)
\* the same for the offsets i, i + 1, ... in ascending order
OrderedMatches(tokens, i) ==
    IF i >= Len(tokens) THEN <<>>
    ELSE MatchesFromOffset(tokens, i, 1) \o OrderedMatches(tokens, i + 1)

\* C28: for an exact-token index whose root carries no value, find_all(text)
\* lists the values by ascending start offset and, within one offset, by
\* increasing match length, and find_any(text) is the first element of
\* find_all(text), None when find_all(text) is empty.
C28_FindAnyIsFirstOfFindAll ==
    (phase = "built" /\ kind = "string" /\ ~IsSome(trie.value))
        => /\ out.op = "find_all" => out.all = OrderedMatches(OutTokens, 0)
           /\ out.op = "find_any" =>
                 /\ out.any = First(OrderedMatches(OutTokens, 0))
                 /\ out.any = First(FindAll(kind, trie, OutTokens))

\* C28's case: "a b" and "a b c" carry different values and find_all("a b\tc")
\* lists the shorter match first
C28_Witness ==
    /\ phase = "built" /\ kind = "string" /\ ~IsSome(trie.value)
    /\ out.op = "find_all"
    /\ out.text = <<"a", " ", "b", "\t", "c">>
    /\ DOMAIN inserted = {<<ta, tb>>, <<ta, tb, tc>>}
    /\ inserted[<<ta, tb>>] # inserted[<<ta, tb, tc>>]
    /\ out.all = <<inserted[<<ta, tb>>], inserted[<<ta, tb, tc>>]>>

\* C28's other case: find_any found nothing at offset 0 and returned the first
\* of two values found from later offsets
C28_WitnessLaterOffset ==
    /\ phase = "built" /\ kind = "string" /\ ~IsSome(trie.value)
    /\ out.op = "find_any"
    /\ Len(out.tried) >= 2
    /\ Len(FindAll(kind, trie, OutTokens)) >= 2
    /\ out.any = Some(FindAll(kind, trie, OutTokens)[1])

\* C29: a failed add changes nothing: in every builder variant, if add returns
\* an error the construction tree is as it was before the call, no node having
\* been created for the tokens that precede the failing one.
C29_FailedAddChangesNothing ==
    [][(nadds' = nadds + 1 /\ last'.called /\ ~last'.ok) => builder' = builder]_vars

\* C29 for the calls that fail at their first token
C29_HoldsWhenFirstTokenFails ==
    [][(nadds' = nadds + 1 /\ last'.called /\ ~last'.ok
          /\ ~CompileOk(Anchor(last'.tokens[1])))
        => builder' = builder]_vars

\* C29's case: an add failed at its second token and left the node of its
\* first token in the tree
C29_LeftoverCase ==
    /\ phase = "building" /\ last.called /\ ~last.ok
    /\ DOMAIN inserted = {}
    /\ builder # DefaultNode
    /\ kind \in {"regex", "generic"}

RECURSIVE CompiledFrom(_, _)
\* the compiled-set node n is the compilation of the construction node b: the
\* same value, one pattern and one child per construction child, and the child
\* at index i compiled from the construction child keyed by the i-th pattern
CompiledFrom(n, b) ==
    /\ n.value = b.value
    /\ Len(n.children) = Cardinality(DOMAIN b.children)
    /\ Len(n.patterns) = Len(n.children)
    /\ {n.patterns[i] : i \in DOMAIN n.patterns} = DOMAIN b.children
    /\ \A i \in DOMAIN n.children : CompiledFrom(n.children[i], b.children[n.patterns[i]])

RECURSIVE BuilderNodeAt(_, _, _)
\* the construction node that the path of indices leads to in the index n
BuilderNodeAt(n, b, path) ==
    IF path = <<>> THEN b
    ELSE BuilderNodeAt(n.children[Head(path)], b.children[n.patterns[Head(path)]], Tail(path))

\* C30: build preserves the tree and keeps the patterns aligned with the
\* children: a compiled-set node has its construction node's value and one
\* child per construction child, the child at index i being compiled from the
\* construction child keyed by the i-th pattern; get_children(token) returns
\* exactly the subtrees of the sibling patterns that accept token, and a node
\* built from a construction node without children returns no child.
C30_BuildKeepsPatternsAligned ==
    (phase = "built" /\ kind = "regexset")
        => /\ CompiledFrom(trie, builder)
           /\ out.op = "find_all" =>
                 \A path \in Paths(trie) : \A i \in DOMAIN OutTokens :
                     LET n  == NodeAt(trie, path)
                         b  == BuilderNodeAt(trie, builder, path)
                         cs == GetChildren(kind, n, OutTokens[i])
                         ks == {k \in DOMAIN b.children : IsMatch(k, OutTokens[i])}
                     IN  /\ Len(cs) = Cardinality(ks)
                         /\ \A k \in ks : \E j \in DOMAIN cs : CompiledFrom(cs[j], b.children[k])
                         /\ \A j \in DOMAIN cs : \E k \in ks : CompiledFrom(cs[j], b.children[k])
                         /\ DOMAIN b.children = {} => cs = <<>>

\* C30's case: the root was built from two construction children with
\* different subtrees, "(a|b)" above "c" and "b", and find_all explored both
C30_Witness ==
    /\ phase = "built" /\ kind = "regexset" /\ out.op = "find_all"
    /\ inserted = OverlapPair /\ replaced = {}
    /\ Len(trie.children) = 2
    /\ trie.children[1] # trie.children[2]
    /\ out.text = <<"b">>
    /\ out.all = <<FALSE>>

=============================================================================
